---- MODULE Spec2Model ----
(***************************************************************************)
(* Model of src/eda.py: a one-shot batch job that loads a transactions     *)
(* table and a table of daily exchange rates, joins them on the calendar   *)
(* date, converts every amount to USD, drops the rows it could not         *)
(* convert, computes summary statistics, renders five charts and writes    *)
(* report.txt.                                                             *)
(*                                                                         *)
(* Conventions of the model                                                *)
(*  - a nullable cell (None / NaN / NaT) is the empty tuple << >>, a       *)
(*    present value v is <<v>>;                                            *)
(*  - a float is an exact fraction [num, den] in lowest terms; den = 0     *)
(*    stands for the IEEE specials (0/0 is nan);                           *)
(*  - a table is a sequence of records, one record per row, one field per  *)
(*    column.                                                              *)
(***************************************************************************)
EXTENDS Integers, Sequences, FiniteSets, TLC

VARIABLES
    tx_file,            \* content of transaction_fraud_data.parquet
    rates_file,         \* content of historical_currency_exchange.parquet
    report0,            \* content of report.txt when the process started
    run,                \* 1 for the first run of the script, 2 for the second
    prev_report,        \* report.txt as the previous run left it
    pc,                 \* the statement the script is about to execute
    steps,              \* the sections of the script executed by this run
    transactions, exchange_rates, merged,
    total_transactions, fraud_count, fraud_percent,
    unique_customers, unique_vendors,
    top_countries, fraud_by_vendor, hour_counts,
    plots_dir,          \* whether the directory plots/ exists
    plot_files,         \* the files present in plots/
    saved,              \* the chart files written by this run, in order
    report              \* content of report.txt

vars == << tx_file, rates_file, report0, run, prev_report, pc, steps,
           transactions, exchange_rates, merged,
           total_transactions, fraud_count, fraud_percent,
           unique_customers, unique_vendors,
           top_countries, fraud_by_vendor, hour_counts,
           plots_dir, plot_files, saved, report >>

----------------------------------------------------------------------------
(* Values *)

None == << >>

Some(v) == << v >>

notnull(x) == x # None

Min(a, b) == IF a < b THEN a ELSE b

RECURSIVE GCD(_, _)
GCD(a, b) == IF b = 0 THEN a ELSE GCD(b, a % b)

\* The fraction n/d (d >= 0, n >= 0) in lowest terms; d = 0 gives nan or inf.
Frac(n, d) ==
    IF d = 0 THEN [num |-> IF n = 0 THEN 0 ELSE 1, den |-> 0]
    ELSE LET g == GCD(n, d) IN [num |-> n \div g, den |-> d \div g]

NaN == [num |-> 0, den |-> 0]

FracTimes(x, k) == Frac(x.num * k, x.den)

\* x > y for two finite fractions
FracGreater(x, y) == x.num * y.den > y.num * x.den

Range(s) == { s[i] : i \in DOMAIN s }

SeqsUpTo(S, n) == UNION { [1..k -> S] : k \in 0..n }

----------------------------------------------------------------------------
(* Input tables *)

\* Rows of transaction_fraud_data.parquet read by one run, at most.
MaxTx == 2

\* The columns of the rate table besides date: one per currency code.
RateColumns == {"EUR"}

\* Currency codes of transactions; JPY has no column in the rate table.
Currencies == {"EUR", "JPY"}

\* What a transaction says besides its date, currency and amount.
Profiles == {
    [hour |-> 0,  customer_id |-> 1, vendor |-> "v1", vendor_category |-> "travel",
     country |-> 1, is_fraud |-> TRUE],
    [hour |-> 23, customer_id |-> 2, vendor |-> "v2", vendor_category |-> "retail",
     country |-> 2, is_fraud |-> FALSE] }

Tx(d, cur, amt, p) ==
    [timestamp |-> [date |-> d, hour |-> p.hour], currency |-> cur, amount |-> amt,
     customer_id |-> p.customer_id, vendor |-> p.vendor,
     vendor_category |-> p.vendor_category, country |-> p.country,
     is_fraud |-> p.is_fraud]

Honest == CHOOSE p \in Profiles : ~ p.is_fraud

\* Transactions of day 1 in every currency, with and without an amount, and
\* one transaction of day 2.
TxRows == { Tx(1, cur, amt, p) : cur \in Currencies, amt \in {None, Some(100)},
                                 p \in Profiles }
          \cup { Tx(2, "EUR", Some(100), Honest) }

RateRow(d, eur) == [date |-> [date |-> d, hour |-> 0], EUR |-> eur]

\* A day's rate is missing (null), zero, or a positive number.
RateRows == { RateRow(1, None), RateRow(1, Some(0)), RateRow(1, Some(2)),
              RateRow(1, Some(3)), RateRow(2, Some(2)) }

\* Rate tables: no row, one row, or two rows (two rows may carry the same date).
RateTables == {<< >>} \cup { <<r>> : r \in RateRows }
                      \cup { <<r, q>> : r \in RateRows, q \in RateRows }

\* A report.txt left by an earlier, unrelated run.
StaleReport == Some(<< [text |-> "stale", args |-> << >>] >>)

----------------------------------------------------------------------------
(* Section 2 of the script: preprocessing *)

\* row[name] = val, as a new column or over the old one
AddColumn(row, name, val) ==
    [f \in DOMAIN row \cup {name} |-> IF f = name THEN val ELSE row[f]]

\* Series.dt.date: the calendar date of a timestamp
dt_date(ts) == ts.date

\* Series.dt.hour
dt_hour(ts) == ts.hour

\* transactions["date"] = transactions["timestamp"].dt.date
WithDate(table) ==
    [i \in DOMAIN table |-> AddColumn(table[i], "date", dt_date(table[i].timestamp))]

\* exchange_rates["date"] = pd.to_datetime(exchange_rates["date"]).dt.date
RatesWithDate(table) ==
    [i \in DOMAIN table |-> [table[i] EXCEPT !.date = dt_date(@)]]

\* one joined row: the transaction's columns and the rate row's other columns
JoinedRow(t, r) ==
    [f \in DOMAIN t \cup RateColumns |-> IF f \in RateColumns THEN r[f] ELSE t[f]]

\* the joined row of a transaction whose date has no rate row: nulls
Unmatched(t) ==
    [f \in DOMAIN t \cup RateColumns |-> IF f \in RateColumns THEN None ELSE t[f]]

\* the rows of `right` whose date is d, in order
Matching(right, d) == SelectSeq(right, LAMBDA r : r.date = d)

RowsFor(t, right) ==
    LET m == Matching(right, t.date)
    IN  IF m = << >> THEN << Unmatched(t) >>
        ELSE [j \in DOMAIN m |-> JoinedRow(t, m[j])]

\* transactions.merge(exchange_rates, on="date", how="left")
RECURSIVE merge(_, _)
merge(left, right) ==
    IF left = << >> THEN << >>
    ELSE RowsFor(Head(left), right) \o merge(Tail(left), right)

\* row.get(key, None)
get(row, key) == IF key \in DOMAIN row THEN row[key] ELSE None

\* the conversion with the rate applied the wrong way round
DivideTimes(amount, rate) ==
    IF notnull(amount) THEN Some(Frac(amount[1] * rate, 1)) ELSE None

\* row["amount"] / rate: a missing amount is NaN, and NaN / rate is NaN
Divide(amount, rate) ==
    IF notnull(amount) THEN Some(Frac(amount[1], rate)) ELSE None

\* the conversion without the test for a zero rate: amount / 0 is inf
convert_unchecked(row) ==
    LET rate == get(row, row.currency)
    IN  IF notnull(rate) THEN Divide(row.amount, rate[1]) ELSE None

convert_to_usd(row) ==
    LET rate == get(row, row.currency)
    IN  IF notnull(rate) /\ rate[1] # 0 THEN Divide(row.amount, rate[1]) ELSE None

\* merged.apply(convert_to_usd, axis=1)
apply_convert(table) ==
    [i \in DOMAIN table |-> AddColumn(table[i], "amount_usd", convert_to_usd(table[i]))]

\* a dropna that looks at no column: every row of this table has some cell
dropna_nothing(table) == table

\* merged.dropna(subset=["amount_usd"])
dropna(table) == SelectSeq(table, LAMBDA row : notnull(row.amount_usd))

----------------------------------------------------------------------------
(* Sections 3 and 5 of the script: aggregates *)

\* the cells of one column, in row order
Column(table, name) == [i \in DOMAIN table |-> table[i][name]]

\* Series.sum() of a boolean column
sum(col) == Len(SelectSeq(col, LAMBDA b : b))

\* Series.nunique()
nunique(col) == Cardinality(Range(col))

\* the division of two Python integers: a zero divisor raises
ZeroDivisionError(n, d) == d = 0

\* fraud_count / total_transactions: fraud_count is a numpy integer (the sum
\* of a boolean column), so a zero divisor gives nan with a warning and does
\* not raise.
DivisionRaises(n, d) == FALSE

true_divide(n, d) == Frac(n, d)

\* the distinct values of a column, in order of first appearance
RECURSIVE unique(_)
unique(col) ==
    IF col = << >> THEN << >>
    ELSE LET rest == unique(SubSeq(col, 1, Len(col) - 1))
             last == col[Len(col)]
         IN  IF last \in Range(rest) THEN rest ELSE Append(rest, last)

CountOf(col, v) == Len(SelectSeq(col, LAMBDA x : x = v))

\* s reordered by its keys (fractions, keys[i] the key of s[i]), largest
\* first, entries of equal key in their order in s
SortDesc(s, keys) ==
    LET pos(i) == 1 + Cardinality({ j \in DOMAIN s :
                        \/ FracGreater(keys[j], keys[i])
                        \/ (~ FracGreater(keys[i], keys[j]) /\ j < i) })
    IN  [p \in DOMAIN s |-> s[CHOOSE i \in DOMAIN s : pos(i) = p]]

\* value_counts(sort=False): the entries in order of first appearance
value_counts_unsorted(col) ==
    LET u == unique(col)
    IN  [i \in DOMAIN u |-> [value |-> u[i], count |-> CountOf(col, u[i])]]

\* Series.value_counts(): one entry per distinct value, largest count first,
\* equal counts in order of first appearance
value_counts(col) ==
    LET u == unique(col)
        entries == [i \in DOMAIN u |-> [value |-> u[i], count |-> CountOf(col, u[i])]]
    IN  SortDesc(entries, [i \in DOMAIN u |-> [num |-> entries[i].count, den |-> 1]])

TopN == 10

head(s, n) == SubSeq(s, 1, Min(n, Len(s)))

\* The vendor categories, in the order groupby sorts its keys.
Categories == << "retail", "travel" >>

\* merged.groupby("vendor_category")["is_fraud"].mean()
groupby_mean(table) ==
    LET present == SelectSeq(Categories,
                             LAMBDA c : \E i \in DOMAIN table : table[i].vendor_category = c)
        group(c) == SelectSeq(table, LAMBDA row : row.vendor_category = c)
    IN  [i \in DOMAIN present |->
            [category |-> present[i],
             mean |-> Frac(sum(Column(group(present[i]), "is_fraud")),
                           Len(group(present[i])))]]

\* .sort_values(ascending=False)
sort_values_desc(s) == SortDesc(s, [i \in DOMAIN s |-> s[i].mean])

\* a grouping that marks the hours that occur instead of counting their rows
countplot_marks(col) == [h \in Range(col) |-> 1]

\* sns.countplot(x="hour"): the number of rows of every hour that occurs
countplot(col) == [h \in Range(col) |-> CountOf(col, h)]

----------------------------------------------------------------------------
(* Section 7 of the script: the report *)

\* a formatting that cuts the digits after the second instead of rounding
Format2f_cut(x) ==
    IF x.den = 0 THEN [nan |-> TRUE, hundredths |-> 0]
    ELSE [nan |-> FALSE, hundredths |-> (x.num * 100) \div x.den]

\* f"{x:.2f}": x in hundredths, rounded to the nearest, a tie to the even one
Format2f(x) ==
    IF x.den = 0 THEN [nan |-> TRUE, hundredths |-> 0]
    ELSE LET n == x.num * 100
             q == n \div x.den
             r == n % x.den
         IN  [nan |-> FALSE,
              hundredths |-> IF 2 * r < x.den THEN q
                             ELSE IF 2 * r > x.den THEN q + 1
                             ELSE IF q % 2 = 0 THEN q ELSE q + 1]

Line(text, args) == [text |-> text, args |-> args]

product_hypotheses == << "night-time limits", "high-fraud categories",
                         "large-transaction notices", "geo check", "real-time ML" >>

technical_hypotheses == << "time features", "behavioural biometrics",
                           "customer clustering", "vendor enrichment", "ensembles" >>

Bullets(hs) == [i \in DOMAIN hs |-> Line("- ", << hs[i] >>)]

\* what the with-block writes, line by line
ReportLines(total, frauds, percent, customers, vendors) ==
    << Line("=== stats ===", << >>),
       Line("total", << total >>),
       Line("fraud", << frauds, Format2f(percent) >>),
       Line("customers", << customers >>),
       Line("vendors", << vendors >>),
       Line("", << >>),
       Line("=== product hypotheses ===", << >>) >>
    \o Bullets(product_hypotheses)
    \o << Line("", << >>), Line("=== technical hypotheses ===", << >>) >>
    \o Bullets(technical_hypotheses)

\* open("report.txt", "a"): the lines are added to what the file holds
WriteAppend(old, lines) == IF notnull(old) THEN Some(old[1] \o lines) ELSE Some(lines)

\* open("report.txt", "w"): the file is truncated, then written
WriteFile(old, lines) == Some(lines)

----------------------------------------------------------------------------
(* The script, statement by statement *)

\* the script's variables before it has assigned them
Unassigned ==
    /\ transactions = << >> /\ exchange_rates = << >> /\ merged = << >>
    /\ total_transactions = 0 /\ fraud_count = 0 /\ fraud_percent = NaN
    /\ unique_customers = 0 /\ unique_vendors = 0
    /\ top_countries = << >> /\ fraud_by_vendor = << >> /\ hour_counts = << >>

\* A process starts: the two input files and whatever an earlier run left.
InitWith(txs, rates, reports, dirs) ==
    /\ tx_file \in txs
    /\ rates_file \in rates
    /\ report0 \in reports
    /\ report = report0
    /\ plots_dir \in dirs
    /\ plot_files = {}
    /\ run = 1
    /\ prev_report = None
    /\ pc = "load"
    /\ steps = << >>
    /\ saved = << >>
    /\ Unassigned

Init == InitWith(SeqsUpTo(TxRows, MaxTx), RateTables, {None}, {FALSE})

inputs == << tx_file, rates_file, report0, run, prev_report >>

tables == << transactions, exchange_rates, merged >>

scalars == << total_transactions, fraud_count, fraud_percent,
              unique_customers, unique_vendors >>

series == << top_countries, fraud_by_vendor, hour_counts >>

disk == << plots_dir, plot_files, saved, report >>

\* the statement at `at` runs; the next one is `next`
Step(at, next) ==
    /\ pc = at
    /\ pc' = next
    /\ steps' = Append(steps, at)

\* the exception of the statement at `at` is swallowed and the script ends
\* as if it had run through
RaiseSwallowed(at) ==
    /\ pc = at
    /\ pc' = "done"
    /\ steps' = Append(steps, at)

\* the statement at `at` raises: nothing catches it, the process ends
Raise(at) ==
    /\ pc = at
    /\ pc' = "failed"
    /\ steps' = Append(steps, at)

\* lines 22-24: pd.read_parquet of both files
LoadData ==
    \/ /\ Step("load", "merge")
       /\ transactions' = tx_file
       /\ exchange_rates' = rates_file
       /\ UNCHANGED << inputs, merged, scalars, series, disk >>
    \/ /\ Raise("load")
       /\ UNCHANGED << inputs, tables, scalars, series, disk >>

\* lines 30-37: the date columns and the left join
Merge ==
    /\ Step("merge", "convert")
    /\ transactions' = WithDate(transactions)
    /\ exchange_rates' = RatesWithDate(exchange_rates)
    /\ merged' = merge(transactions', exchange_rates')
    /\ UNCHANGED << inputs, scalars, series, disk >>

\* line 47: merged["amount_usd"] = merged.apply(convert_to_usd, axis=1)
Convert ==
    /\ Step("convert", "dropna")
    /\ merged' = apply_convert(merged)
    /\ UNCHANGED << inputs, transactions, exchange_rates, scalars, series, disk >>

\* line 50: merged = merged.dropna(subset=["amount_usd"])
Dropna ==
    /\ Step("dropna", "stats")
    /\ merged' = dropna(merged)
    /\ UNCHANGED << inputs, transactions, exchange_rates, scalars, series, disk >>

\* lines 53-57: the scalar statistics
Stats ==
    LET total == Len(merged)
        frauds == sum(Column(merged, "is_fraud"))
    IN  IF DivisionRaises(frauds, total)
        THEN /\ Raise("stats")
             /\ total_transactions' = total
             /\ fraud_count' = frauds
             /\ UNCHANGED << inputs, tables, fraud_percent, unique_customers,
                             unique_vendors, series, disk >>
        ELSE /\ Step("stats", "makedirs")
             /\ total_transactions' = total
             /\ fraud_count' = frauds
             /\ fraud_percent' = FracTimes(true_divide(frauds, total), 100)
             /\ unique_customers' = nunique(Column(merged, "customer_id"))
             /\ unique_vendors' = nunique(Column(merged, "vendor"))
             /\ UNCHANGED << inputs, tables, series, disk >>

\* line 60: os.makedirs("plots", exist_ok=True)
Makedirs ==
    \/ /\ Step("makedirs", "plot_amount")
       /\ plots_dir' = TRUE
       /\ UNCHANGED << inputs, tables, scalars, series, plot_files, saved, report >>
    \/ /\ Raise("makedirs")
       /\ UNCHANGED << inputs, tables, scalars, series, disk >>

\* plt.savefig("plots/<name>") at `at`: the file is written, or the call raises
Savefig(at, next, name) ==
    \/ /\ Step(at, next)
       /\ plots_dir
       /\ plot_files' = plot_files \cup {name}
       /\ saved' = Append(saved, name)
       /\ UNCHANGED << plots_dir, report >>
    \/ /\ Raise(at)
       /\ UNCHANGED disk

\* lines 65-72
PlotAmount ==
    /\ Savefig("plot_amount", "plot_countries", "amount_distribution.png")
    /\ UNCHANGED << inputs, tables, scalars, series >>

\* lines 75-83
PlotCountries ==
    /\ top_countries' = head(value_counts(Column(merged, "country")), TopN)
    /\ Savefig("plot_countries", "plot_vendor", "top_countries.png")
    /\ UNCHANGED << inputs, tables, scalars, fraud_by_vendor, hour_counts >>

\* lines 86-94
PlotVendor ==
    /\ fraud_by_vendor' = sort_values_desc(groupby_mean(merged))
    /\ Savefig("plot_vendor", "plot_hour", "fraud_by_vendor.png")
    /\ UNCHANGED << inputs, tables, scalars, top_countries, hour_counts >>

\* merged["hour"] = merged["timestamp"].dt.hour
WithHour(table) ==
    [i \in DOMAIN table |-> AddColumn(table[i], "hour", dt_hour(table[i].timestamp))]

\* lines 97-105
PlotHour ==
    /\ merged' = WithHour(merged)
    /\ hour_counts' = countplot(Column(merged', "hour"))
    /\ Savefig("plot_hour", "plot_corr", "transactions_by_hour.png")
    /\ UNCHANGED << inputs, transactions, exchange_rates, scalars,
                    top_countries, fraud_by_vendor >>

\* lines 108-114
PlotCorr ==
    /\ Savefig("plot_corr", "report", "correlation_heatmap.png")
    /\ UNCHANGED << inputs, tables, scalars, series >>

\* lines 134-146: open("report.txt", "w") and the writes. open may raise, and
\* so may a write, after open has emptied the file.
WriteReport ==
    \/ /\ Step("report", "done")
       /\ report' = WriteFile(report,
                        ReportLines(total_transactions, fraud_count, fraud_percent,
                                    unique_customers, unique_vendors))
       /\ UNCHANGED << inputs, tables, scalars, series, plots_dir, plot_files, saved >>
    \/ /\ Raise("report")
       /\ UNCHANGED << inputs, tables, scalars, series, disk >>
    \/ /\ Raise("report")
       /\ report' = WriteFile(report, << >>)
       /\ UNCHANGED << inputs, tables, scalars, series, plots_dir, plot_files, saved >>

Next ==
    \/ LoadData
    \/ Merge
    \/ Convert
    \/ Dropna
    \/ Stats
    \/ Makedirs
    \/ PlotAmount
    \/ PlotCountries
    \/ PlotVendor
    \/ PlotHour
    \/ PlotCorr
    \/ WriteReport

Spec == Init /\ [][Next]_vars

----------------------------------------------------------------------------
(* The statistics on longer tables: three profiles, every transaction on    *)
(* day 1 with an amount, one rate row.                                      *)

MaxStatsTx == 4

Returning == [hour |-> 23, customer_id |-> 1, vendor |-> "v2",
              vendor_category |-> "travel", country |-> 1, is_fraud |-> FALSE]

StatsRows == { Tx(1, cur, Some(100), p) : cur \in Currencies,
                                          p \in Profiles \cup {Returning} }

InitStats ==
    InitWith(SeqsUpTo(StatsRows, MaxStatsTx), { << RateRow(1, Some(3)) >> },
             {None}, {FALSE})

SpecStats == InitStats /\ [][Next]_vars

----------------------------------------------------------------------------
(* The country ranking on tables with more than TopN countries: row k names *)
(* country k, or, among the last six rows, the one country that recurs; the *)
(* second row has no rate and is dropped. The script is followed up to the  *)
(* country chart.                                                           *)

MaxTopTx == 13

Recurring == TopN + 1

TopRow(k, c) ==
    [Tx(1, IF k = 2 THEN "JPY" ELSE "EUR", Some(100), Honest) EXCEPT !.country = c]

TopTables ==
    UNION { { [k \in 1..n |-> TopRow(k, IF k \in heavy THEN Recurring ELSE k)] :
                heavy \in SUBSET ((n - 5)..n) } : n \in 0..MaxTopTx }

InitTop == InitWith(TopTables, { << RateRow(1, Some(2)) >> }, {None}, {FALSE})

NextTop ==
    \/ LoadData
    \/ Merge
    \/ Convert
    \/ Dropna
    \/ Stats
    \/ Makedirs
    \/ PlotAmount
    \/ PlotCountries

SpecTop == InitTop /\ [][NextTop]_vars

----------------------------------------------------------------------------
(* The script run again on the same input files, in the directory the first *)
(* run left behind.                                                         *)

MaxRuns == 2

MaxTwiceTx == 1

\* python eda.py, once more: a new process, the same disk
Rerun ==
    /\ pc = "done"
    /\ run < MaxRuns
    /\ run' = run + 1
    /\ prev_report' = report
    /\ report0' = report
    /\ pc' = "load"
    /\ steps' = << >>
    /\ saved' = << >>
    /\ transactions' = << >> /\ exchange_rates' = << >> /\ merged' = << >>
    /\ total_transactions' = 0 /\ fraud_count' = 0 /\ fraud_percent' = NaN
    /\ unique_customers' = 0 /\ unique_vendors' = 0
    /\ top_countries' = << >> /\ fraud_by_vendor' = << >> /\ hour_counts' = << >>
    /\ UNCHANGED << tx_file, rates_file, plots_dir, plot_files, report >>

InitTwice ==
    InitWith(SeqsUpTo(TxRows, MaxTwiceTx),
             {<< >>} \cup { <<r>> : r \in RateRows },
             {None, StaleReport}, BOOLEAN)

NextTwice == Next \/ Rerun

SpecTwice == InitTwice /\ [][NextTwice]_vars

----------------------------------------------------------------------------
(* What the claims speak of, stated over the input files *)

\* the section `at` of the script has been executed by this run
Ran(at) == at \in Range(steps)

\* the section `at` has been executed and did not raise
Completed(at) == Ran(at) /\ ~ (pc = "failed" /\ steps[Len(steps)] = at)

\* the rate of transaction i in row j of the rate table: the cell of the column
\* named by the transaction's currency, if the table has such a column
RateCell(i, j) ==
    IF tx_file[i].currency \in DOMAIN rates_file[j]
    THEN rates_file[j][tx_file[i].currency] ELSE None

SameDay(i, j) == tx_file[i].timestamp.date = rates_file[j].date.date

\* the rate lookup of transaction i succeeds in row j of the rate table
Resolved(i, j) ==
    /\ SameDay(i, j)
    /\ notnull(RateCell(i, j))
    /\ RateCell(i, j)[1] # 0

Pairs == (DOMAIN tx_file) \X (DOMAIN rates_file)

\* the (transaction, rate row) pairs behind the rows of the filtered table
Kept == { p \in Pairs : Resolved(p[1], p[2]) /\ notnull(tx_file[p[1]].amount) }

\* transaction i has no usable rate: no column, no row of its day, or every
\* rate of its day null or zero
Unresolvable(i) == \A j \in DOMAIN rates_file : ~ Resolved(i, j)

NoColumn(i) == tx_file[i].currency \notin RateColumns

NoDay(i) == \A j \in DOMAIN rates_file : ~ SameDay(i, j)

ZeroRate(i) ==
    /\ ~ NoColumn(i)
    /\ \E j \in DOMAIN rates_file : SameDay(i, j)
    /\ \A j \in DOMAIN rates_file : SameDay(i, j) => RateCell(i, j) = Some(0)

\* C1: every row of the filtered table carries amount_usd = amount / rate,
\* the rate being a cell of the rate table in the column of the row's currency
\* and a row of the row's date; that rate is neither null nor zero.
C1_AmountUsd ==
    Completed("dropna") =>
        \A k \in DOMAIN merged :
            LET row == merged[k] IN
            /\ row.currency \in RateColumns
            /\ notnull(row[row.currency])
            /\ row[row.currency][1] # 0
            /\ \E j \in DOMAIN rates_file :
                  /\ rates_file[j].date.date = row.timestamp.date
                  /\ rates_file[j][row.currency] = row[row.currency]
            /\ notnull(row.amount)
            /\ notnull(row.amount_usd)
            /\ row.amount_usd[1].den > 0
            /\ row.amount_usd[1].num * row[row.currency][1]
                  = row.amount[1] * row.amount_usd[1].den

\* a filtered table with an inexact quotient, from a rate table that also
\* holds a null or a zero rate
C1_Witness ==
    /\ Completed("dropna")
    /\ \E k \in DOMAIN merged : merged[k].amount_usd[1].den > 1
    /\ \E j \in DOMAIN rates_file : rates_file[j].EUR \in {None, Some(0)}

\* the sections that touch the disk; each may raise on an I/O error
IOSteps == { "load", "makedirs", "plot_amount", "plot_countries", "plot_vendor",
             "plot_hour", "plot_corr", "report" }

KeptWhere(P(_)) == Cardinality({ p \in Kept : P(tx_file[p[1]]) })

\* C2: a transaction without a usable rate (no column for its currency, no
\* rate row for its date, a zero or null rate) raises nothing and counts
\* nowhere: the filtered table, the scalar statistics, the top countries, the
\* fraud rate by category, the hour counts and the totals of report.txt are
\* those of the transactions that do have a rate.
C2_ExcludedEverywhere ==
    /\ pc = "failed" => steps[Len(steps)] \in IOSteps
    /\ Completed("dropna") => Len(merged) = Cardinality(Kept)
    /\ Completed("stats") =>
          /\ total_transactions = Cardinality(Kept)
          /\ fraud_count = KeptWhere(LAMBDA t : t.is_fraud)
          /\ fraud_percent = Frac(100 * KeptWhere(LAMBDA t : t.is_fraud),
                                  Cardinality(Kept))
          /\ unique_customers = Cardinality({ tx_file[p[1]].customer_id : p \in Kept })
          /\ unique_vendors = Cardinality({ tx_file[p[1]].vendor : p \in Kept })
    /\ Ran("plot_countries") =>
          /\ { e.value : e \in Range(top_countries) }
                = { tx_file[p[1]].country : p \in Kept }
          /\ \A e \in Range(top_countries) :
                e.count = KeptWhere(LAMBDA t : t.country = e.value)
    /\ Ran("plot_vendor") =>
          /\ { e.category : e \in Range(fraud_by_vendor) }
                = { tx_file[p[1]].vendor_category : p \in Kept }
          /\ \A e \in Range(fraud_by_vendor) :
                e.mean = Frac(KeptWhere(LAMBDA t : t.vendor_category = e.category
                                                   /\ t.is_fraud),
                              KeptWhere(LAMBDA t : t.vendor_category = e.category))
    /\ Ran("plot_hour") =>
          /\ DOMAIN hour_counts = { tx_file[p[1]].timestamp.hour : p \in Kept }
          /\ \A h \in DOMAIN hour_counts :
                hour_counts[h] = KeptWhere(LAMBDA t : t.timestamp.hour = h)
    /\ pc = "done" =>
          /\ report[1][2].args = << Cardinality(Kept) >>
          /\ report[1][3].args[1] = KeptWhere(LAMBDA t : t.is_fraud)
          /\ report[1][4].args
                = << Cardinality({ tx_file[p[1]].customer_id : p \in Kept }) >>
          /\ report[1][5].args
                = << Cardinality({ tx_file[p[1]].vendor : p \in Kept }) >>

\* the report of a run whose input held a fraud-flagged transaction without a
\* usable rate next to a transaction with one
C2_Witness ==
    /\ pc = "done"
    /\ total_transactions >= 1
    /\ \E i \in DOMAIN tx_file :
          /\ tx_file[i].is_fraud
          /\ NoColumn(i) \/ NoDay(i) \/ ZeroRate(i)

\* the fraud-flagged rows of the filtered table as it stands
FraudRows == { k \in DOMAIN merged : merged[k].is_fraud }

\* C3: the report carries the length of the filtered table, the number of its
\* fraud-flagged rows, and that number over that length times 100 to the
\* nearest hundredth.
C3_FraudPercent ==
    pc = "done" =>
        /\ report[1][2].args = << Len(merged) >>
        /\ report[1][3].args[1] = Cardinality(FraudRows)
        /\ Len(merged) > 0 =>
              LET shown == report[1][3].args[2]
                  err == shown.hundredths * Len(merged) - 10000 * Cardinality(FraudRows)
              IN  /\ ~ shown.nan
                  /\ 2 * err <= Len(merged)
                  /\ 2 * err >= - Len(merged)

\* a report whose percentage was rounded up (2 of 3 rows: 66.67), from an
\* input of which a row was dropped
C3_Witness ==
    /\ pc = "done"
    /\ Len(merged) < Len(tx_file)
    /\ report[1][3].args[2].hundredths * Len(merged) > 10000 * Cardinality(FraudRows)

CountryRows(c) == Cardinality({ k \in DOMAIN merged : merged[k].country = c })

\* C4: the list of top countries has at most 10 entries, counts that never
\* grow along the list, for every entry the number of rows of that country
\* in the filtered table, and no country outside the list outnumbers one in it.
C4_TopCountries ==
    Ran("plot_countries") =>
        /\ Len(top_countries) <= 10
        /\ \A i, j \in DOMAIN top_countries :
              i < j => top_countries[i].count >= top_countries[j].count
        /\ \A e \in Range(top_countries) :
              /\ e.count >= 1
              /\ e.count = CountryRows(e.value)
        /\ \A k \in DOMAIN merged :
              merged[k].country \notin { e.value : e \in Range(top_countries) }
                 => \A e \in Range(top_countries) : CountryRows(merged[k].country) <= e.count

\* a full list headed by the recurring country, which appeared late in the
\* table, with countries left out
C4_Witness ==
    /\ Ran("plot_countries")
    /\ Len(top_countries) = TopN
    /\ top_countries[1].value = Recurring
    /\ top_countries[1].count >= 2
    /\ merged[1].country # Recurring
    /\ \E k \in DOMAIN merged :
          merged[k].country \notin { e.value : e \in Range(top_countries) }

RECURSIVE SumOver(_)
SumOver(f) ==
    IF DOMAIN f = {} THEN 0
    ELSE LET h == CHOOSE x \in DOMAIN f : TRUE
         IN  f[h] + SumOver([x \in DOMAIN f \ {h} |-> f[x]])

\* C5: the hour column of the filtered table and the hour grouping hold only
\* hours 0..23, and the counts of the grouping add up to total_transactions.
C5_HourCounts ==
    Ran("plot_hour") =>
        /\ \A k \in DOMAIN merged : merged[k].hour \in 0..23
        /\ DOMAIN hour_counts \subseteq 0..23
        /\ SumOver(hour_counts) = total_transactions

\* a grouping with both ends of the day, one of them counted twice, computed
\* from an input of which a row was dropped
C5_Witness ==
    /\ Ran("plot_hour")
    /\ DOMAIN hour_counts = {0, 23}
    /\ \E h \in DOMAIN hour_counts : hour_counts[h] >= 2
    /\ \E i \in DOMAIN tx_file : Unresolvable(i)

StaleLine == StaleReport[1][1]

\* C6: a second run on the same input files leaves report.txt exactly as the
\* first run wrote it, and nothing of an older report.txt survives a run.
C6_SameReport ==
    pc = "done" =>
        /\ notnull(report)
        /\ StaleLine \notin Range(report[1])
        /\ run >= 2 => report = prev_report

\* the second run has finished; the first one found no plots directory
C6_Witness ==
    /\ pc = "done"
    /\ run = 2
    /\ total_transactions >= 1
    /\ plots_dir

\* C7: on an empty filtered table the statistics are computed without an
\* error: the counts are 0, the fraud percentage is nan, the series are empty.
C7_EmptyTable ==
    (Ran("stats") /\ total_transactions = 0) =>
        /\ Completed("stats")
        /\ fraud_count = 0
        /\ fraud_percent = NaN
        /\ unique_customers = 0
        /\ unique_vendors = 0
        /\ Ran("plot_countries") => top_countries = << >>
        /\ Ran("plot_vendor") => fraud_by_vendor = << >>
        /\ Ran("plot_hour") => DOMAIN hour_counts = {}
        /\ pc = "done" => report[1][3].args = << 0, [nan |-> TRUE, hundredths |-> 0] >>

\* a finished run whose transactions were all dropped
C7_Witness ==
    /\ pc = "done"
    /\ tx_file # << >>
    /\ total_transactions = 0

\* the sections of the script, in order
Order == << "load", "merge", "convert", "dropna", "stats", "makedirs",
            "plot_amount", "plot_countries", "plot_vendor", "plot_hour",
            "plot_corr", "report" >>

Charts == << "amount_distribution.png", "top_countries.png", "fraud_by_vendor.png",
             "transactions_by_hour.png", "correlation_heatmap.png" >>

IsPrefix(s, t) == Len(s) <= Len(t) /\ s = SubSeq(t, 1, Len(s))

\* C8: a run executes the sections once each in the fixed order and stops at
\* the first that raises; the charts are written in order, report.txt is
\* written only after all five, and a run that failed earlier leaves
\* report.txt as it found it.
C8_FixedOrder ==
    /\ IsPrefix(steps, Order)
    /\ pc \notin {"failed", "done"} => pc = Order[Len(steps) + 1]
    /\ pc = "done" => steps = Order
    /\ pc = "failed" => steps # << >>
    /\ IsPrefix(saved, Charts)
    /\ Range(saved) \subseteq plot_files
    /\ Ran("report") => saved = Charts
    /\ ~ Ran("report") => report = report0

\* a run that failed while saving the third chart, an older report.txt in place
C8_Witness ==
    /\ pc = "failed"
    /\ steps[Len(steps)] = "plot_vendor"
    /\ Len(saved) = 2
    /\ report = StaleReport

\* the rate lookup of a joined row succeeded
RateFound(row) ==
    /\ row.currency \in RateColumns
    /\ notnull(row[row.currency])
    /\ row[row.currency][1] # 0

\* C9 as claimed: dropna removes a joined row exactly when its rate lookup
\* failed, whatever its amount.
C9_DroppedIffNoRate ==
    [][pc = "dropna" => merged' = SelectSeq(merged, RateFound)]_vars

\* C9: dropna removes a joined row exactly when its rate lookup failed or its
\* raw amount is null.
C9_DroppedIffNoRateOrNoAmount ==
    [][pc = "dropna" =>
          merged' = SelectSeq(merged, LAMBDA row : RateFound(row) /\ notnull(row.amount))]_vars

\* after dropna: a row was kept, and a transaction with a usable rate and a
\* null amount was dropped
C9_Witness ==
    /\ pc = "stats"
    /\ merged # << >>
    /\ \E p \in Pairs : Resolved(p[1], p[2]) /\ tx_file[p[1]].amount = None

\* C10 as claimed: the join gives every transaction at most one row, so the
\* table and total_transactions are no longer than the input.
C10_AtMostOneRowPerTransaction ==
    /\ Completed("merge") => Len(merged) <= Len(tx_file)
    /\ Completed("stats") => total_transactions <= Len(tx_file)

====
